---- MODULE Spec2Model ----
(***************************************************************************)
(* A model of two parts of lektor/utils.py:                                *)
(*                                                                         *)
(*   - the virtual-path algebra (split_virtual_path, join_path,            *)
(*     parse_path, is_path_child_of), as pure operators over strings       *)
(*     represented as sequences of one-character strings;                  *)
(*   - the atomic_open context manager, as a state machine over a small    *)
(*     file system (directory entries and inodes) with two sessions whose  *)
(*     system calls interleave.                                            *)
(***************************************************************************)
EXTENDS Integers, Sequences, FiniteSets, TLC

(***************************************************************************)
(* Bounds of the model.                                                    *)
(***************************************************************************)
\* longest path string drawn for the first argument (a)
MaxLenA == 4
\* longest path string drawn for the second argument (b)
MaxLenB == 2
\* most chunks one block writes to its handle
MaxWrites == 2
\* longest content the target holds before any session starts
MaxPrior == 2
\* longest path strings drawn for the three paths a, b, c whose order is asked
MaxOrdA == 3
MaxOrdB == 2
MaxOrdC == 1
\* most components of the name prune_file_and_folder is given
MaxComps == 3

(***************************************************************************)
(* Strings.  A Python str is a sequence of one-character strings.          *)
(***************************************************************************)
\* the characters the drawn paths are made of: a letter, a digit, the
\* separator, the dot and the virtual-path marker
Alphabet == {"a", "1", "/", ".", "@"}

\* Python's None, a value that is no string of the alphabet
None == <<"None">>

\* the characters str.isdigit accepts, among those of the alphabet
Digits == {"0", "1", "2", "3", "4", "5", "6", "7", "8", "9"}

\* all strings over S of length exactly n
RECURSIVE StringsOfLen(_, _)
StringsOfLen(S, n) ==
    IF n = 0 THEN {<<>>}
    ELSE {Append(s, c) : s \in StringsOfLen(S, n - 1), c \in S}

\* all strings over S of length at most n
StringsUpTo(S, n) == UNION {StringsOfLen(S, k) : k \in 0..n}

\* c in s
Contains(s, c) == \E i \in 1..Len(s) : s[i] = c

\* s[i:] with a 1-based first index
Drop(s, i) == SubSeq(s, i, Len(s))

\* s[:n]
Take(s, n) == SubSeq(s, 1, IF n < Len(s) THEN n ELSE Len(s))

\* s.startswith(p)
StartsWith(s, p) == Len(s) >= Len(p) /\ SubSeq(s, 1, Len(p)) = p

\* s.endswith(p)
EndsWith(s, p) == Len(s) >= Len(p) /\ SubSeq(s, Len(s) - Len(p) + 1, Len(s)) = p

\* the index of the first c in s at or after i, 0 when there is none
RECURSIVE IndexFrom(_, _, _)
IndexFrom(s, c, i) ==
    IF i > Len(s) THEN 0 ELSE IF s[i] = c THEN i ELSE IndexFrom(s, c, i + 1)

\* the index of the first c in s, 0 when there is none
FirstIndex(s, c) == IndexFrom(s, c, 1)

\* s.split(c): the pieces between the occurrences of c
RECURSIVE StrSplit(_, _)
StrSplit(s, c) ==
    LET i == FirstIndex(s, c)
    IN  IF i = 0 THEN <<s>>
        ELSE <<SubSeq(s, 1, i - 1)>> \o StrSplit(Drop(s, i + 1), c)

\* c.join(parts)
RECURSIVE StrJoin(_, _)
StrJoin(parts, c) ==
    IF Len(parts) = 0 THEN <<>>
    ELSE IF Len(parts) = 1 THEN parts[1]
    ELSE parts[1] \o <<c>> \o StrJoin(Tail(parts), c)

\* s.lstrip(c)
RECURSIVE LStrip(_, _)
LStrip(s, c) == IF Len(s) > 0 /\ s[1] = c THEN LStrip(Tail(s), c) ELSE s

\* s.rstrip(c)
RECURSIVE RStrip(_, _)
RStrip(s, c) ==
    IF Len(s) > 0 /\ s[Len(s)] = c THEN RStrip(SubSeq(s, 1, Len(s) - 1), c) ELSE s

\* s.strip(c)
Strip(s, c) == RStrip(LStrip(s, c), c)

\* s.isdigit(): every character is a digit and there is at least one
IsDigit(s) == Len(s) > 0 /\ \A i \in 1..Len(s) : s[i] \in Digits

\* the truth value Python gives a str or None: false for None and for ""
Truthy(s) == s # None /\ s # <<>>

(***************************************************************************)
(* posixpath.join and posixpath.normpath, as _norm_join calls them.        *)
(***************************************************************************)
\* posixpath.join(a, b)
PosixJoin(a, b) ==
    IF StartsWith(b, <<"/">>) THEN b
    ELSE IF a = <<>> \/ EndsWith(a, <<"/">>) THEN a \o b
    ELSE a \o <<"/">> \o b

\* the number of leading slashes normpath keeps: 0, 1, or 2 for exactly two
InitialSlashes(path) ==
    IF ~StartsWith(path, <<"/">>) THEN 0
    ELSE IF StartsWith(path, <<"/", "/">>) /\ ~StartsWith(path, <<"/", "/", "/">>) THEN 2
    ELSE 1

\* normpath's loop over the components, new_comps being acc
RECURSIVE NormComps(_, _, _)
NormComps(comps, acc, initial) ==
    IF Len(comps) = 0 THEN acc
    ELSE LET comp == Head(comps)
             rest == Tail(comps)
         IN  IF comp = <<>> \/ comp = <<".">> THEN NormComps(rest, acc, initial)
             ELSE IF \/ comp # <<".", ".">>
                     \/ (initial = 0 /\ Len(acc) = 0)
                     \/ (Len(acc) > 0 /\ acc[Len(acc)] = <<".", ".">>)
                  THEN NormComps(rest, Append(acc, comp), initial)
             ELSE IF Len(acc) > 0
                  THEN NormComps(rest, SubSeq(acc, 1, Len(acc) - 1), initial)
             ELSE NormComps(rest, acc, initial)

\* posixpath.normpath(path)
NormPath(path) ==
    IF path = <<>> THEN <<".">>
    ELSE LET initial == InitialSlashes(path)
             comps == NormComps(StrSplit(path, "/"), <<>>, initial)
             joined == StrJoin(comps, "/")
             full == (IF initial = 2 THEN <<"/", "/">>
                      ELSE IF initial = 1 THEN <<"/">> ELSE <<>>) \o joined
         IN  IF full = <<>> THEN <<".">> ELSE full

\* _norm_join(a, b)
norm_join(a, b) == NormPath(PosixJoin(a, b))

(***************************************************************************)
(* The virtual-path algebra.                                               *)
(***************************************************************************)
\* split_virtual_path(path): <<real, virtual>>, split at the first "@";
\* virtual is None when the path holds no "@"
split_virtual_path(path) ==
    LET i == FirstIndex(path, "@")
    IN  IF i # 0 THEN <<SubSeq(path, 1, i - 1), Drop(path, i + 1)>>
        ELSE <<path, None>>

\* PaginationRule without its exception for the current path: a numeric
\* virtual path of a is dropped whatever b is
PaginationRuleNoDotException(a_v, b_p) ==
    IF Truthy(a_v) /\ IsDigit(a_v) THEN None ELSE a_v

\* join_path's special case: a numeric virtual path of a is dropped unless b
\* refers to the current path (empty string or dot); gives the new a_v
PaginationRule(a_v, b_p) ==
    IF b_p \notin {<<>>, <<".">>} /\ Truthy(a_v) /\ IsDigit(a_v) THEN None ELSE a_v

\* CombineParts testing a's virtual part before b's
CombinePartsAFirst(a_p, a_v, b_p, b_v) ==
    IF Truthy(a_v) THEN a_p \o <<"@">> \o norm_join(a_v, b_p)
    ELSE IF Truthy(b_v) THEN norm_join(a_p, b_p) \o <<"@">> \o b_v
    ELSE norm_join(a_p, b_p)

\* CombineParts joining b to a's real part when a has a virtual part
CombinePartsJoinReal(a_p, a_v, b_p, b_v) ==
    IF Truthy(b_v) THEN norm_join(a_p, b_p) \o <<"@">> \o b_v
    ELSE IF Truthy(a_v) THEN norm_join(a_p, b_p) \o <<"@">> \o a_v
    ELSE norm_join(a_p, b_p)

\* join_path's three-way combination of the split parts
CombineParts(a_p, a_v, b_p, b_v) ==
    IF Truthy(b_v) THEN norm_join(a_p, b_p) \o <<"@">> \o b_v
    ELSE IF Truthy(a_v) THEN a_p \o <<"@">> \o norm_join(a_v, b_p)
    ELSE norm_join(a_p, b_p)

\* join_path's last step: a result ending in "@." loses these two characters
StripAtDot(rv) ==
    IF EndsWith(rv, <<"@", ".">>) THEN SubSeq(rv, 1, Len(rv) - 2) ELSE rv

\* join_path(a, b)
join_path(a, b) ==
    LET sa == split_virtual_path(a)
        sb == split_virtual_path(b)
        a_v == PaginationRule(sa[2], sb[1])
    IN  StripAtDot(CombineParts(sa[1], a_v, sb[1], sb[2]))

\* cleanup_path(path)
cleanup_path(path) == NormPath(<<"/">> \o LStrip(path, "/"))

\* parse_path(path): the list of segments
parse_path(path) ==
    LET x == StrSplit(Strip(cleanup_path(path), "/"), "/")
    IN  IF x = << <<>> >> THEN <<>> ELSE x

\* ChildRule letting identity count whatever strict is
ChildRuleIgnoresStrict(a_p, a_v, b_p, b_v, strict) ==
    IF a_p = b_p /\ a_v = b_v THEN TRUE
    ELSE IF a_v = <<>> /\ b_v # <<>> THEN FALSE
    ELSE IF a_p = b_p /\ Take(a_v, Len(b_v)) = b_v /\ Len(a_v) > Len(b_v) THEN TRUE
    ELSE Take(a_p, Len(b_p)) = b_p /\ Len(a_p) > Len(b_p)

\* ChildRule without the return for a non-virtual a under a virtual b
ChildRuleNoVirtualGuard(a_p, a_v, b_p, b_v, strict) ==
    IF ~strict /\ a_p = b_p /\ a_v = b_v THEN TRUE
    ELSE IF a_p = b_p /\ Take(a_v, Len(b_v)) = b_v /\ Len(a_v) > Len(b_v) THEN TRUE
    ELSE Take(a_p, Len(b_p)) = b_p /\ Len(a_p) > Len(b_p)

\* ChildRule whose last return lets equal real segments count
ChildRuleRealNotStrict(a_p, a_v, b_p, b_v, strict) ==
    IF ~strict /\ a_p = b_p /\ a_v = b_v THEN TRUE
    ELSE IF a_v = <<>> /\ b_v # <<>> THEN FALSE
    ELSE IF a_p = b_p /\ Take(a_v, Len(b_v)) = b_v /\ Len(a_v) > Len(b_v) THEN TRUE
    ELSE Take(a_p, Len(b_p)) = b_p /\ Len(a_p) >= Len(b_p)

\* the three returns of is_path_child_of over the parsed segment lists
ChildRule(a_p, a_v, b_p, b_v, strict) ==
    IF ~strict /\ a_p = b_p /\ a_v = b_v THEN TRUE
    ELSE IF a_v = <<>> /\ b_v # <<>> THEN FALSE
    ELSE IF a_p = b_p /\ Take(a_v, Len(b_v)) = b_v /\ Len(a_v) > Len(b_v) THEN TRUE
    ELSE Take(a_p, Len(b_p)) = b_p /\ Len(a_p) > Len(b_p)

\* a_v or "": the string parse_path is given for a virtual part
OrEmpty(v) == IF Truthy(v) THEN v ELSE <<>>

\* is_path_child_of(a, b, strict)
is_path_child_of(a, b, strict) ==
    LET sa == split_virtual_path(a)
        sb == split_virtual_path(b)
    IN  ChildRule(parse_path(sa[1]), parse_path(OrEmpty(sa[2])),
                  parse_path(sb[1]), parse_path(OrEmpty(sb[2])), strict)

(***************************************************************************)
(* State.                                                                  *)
(***************************************************************************)
VARIABLES
    \* the path algebra: the two arguments of a call, the function called
    \* ("none" before the call) and what it returned
    pa, pb, pop, pres,
    \* a third path, for the calls that compare three paths pairwise
    pthird,
    \* the file system: the directory entries (name -> inode) and the
    \* content of every inode
    dir, data,
    \* the atomic_open sessions: each one's place in the code and its locals
    sess,
    \* what the target held before any session started
    prior,
    \* the session whose os.replace ran last ("none" before any)
    lastRename,
    \* per session, whether one of its own steps changed what the target
    \* name shows
    touched,
    \* prune_file_and_folder: the files and directories that exist, those
    \* that existed before the call, the working directory, the two
    \* arguments and what the call returned ("none" before it returns)
    tree, before, cwd, name, base, ret

pathVars == <<pa, pb, pop, pres, pthird>>

fileVars == <<dir, data, sess, prior, lastRename, touched>>

pruneVars == <<tree, before, cwd, name, base, ret>>

vars == <<pa, pb, pop, pres, pthird, dir, data, sess, prior, lastRename, touched,
          tree, before, cwd, name, base, ret>>

(***************************************************************************)
(* atomic_open over a small file system.                                   *)
(***************************************************************************)
\* the two sessions; a session writes chunks that bear its own name, so the
\* content of a file tells who wrote each part of it
Sessions == {"s1", "s2"}

\* the name atomic_open is given
Target == "P"

\* the names tempfile.mkstemp may choose, all with the prefix ".__atomic-write"
TempNames == {".__atomic-write1", ".__atomic-write2"}

Names == {Target} \cup TempNames

\* no inode (a name with no entry), no temp file (tmp_filename is None), no
\* exception
NoneS == "none"

\* the inode the target has before any session, and the inode mkstemp
\* creates for a session (named after it)
Inode0 == "i0"
Inodes == {Inode0} \cup Sessions

\* what reading a name with no entry gives
Absent == <<"ENOENT">>

\* the modes a session is opened with
Modes == {<<"r">>, <<"w">>, <<"a">>, <<"r", "+">>}

\* the modes that open for writing
WriteOnlyModes == {<<"w">>, <<"a">>}

\* the exceptions a block raises: ValueError derives from Exception,
\* KeyboardInterrupt from BaseException only
Exceptions == {"ValueError", "KeyboardInterrupt"}

\* whether "except Exception" catches e
CaughtByExceptException(e) == e \in {"ValueError", "OSError", "FileNotFoundError"}

\* whether a handle opened with mode m accepts write()
Writable(m) == Contains(m, "w") \/ Contains(m, "a") \/ Contains(m, "+")

\* atomic_open's test for the temp-file branch: "r" not in mode
UsesTemp(m) == ~Contains(m, "r")

\* what reading the name n gives in directory d with inode contents dt
ReadName(d, dt, n) == IF d[n] = NoneS THEN Absent ELSE dt[d[n]]

\* what reading the target gives
TargetContent == ReadName(dir, data, Target)

\* MkstempNames without O_EXCL: a name that has an entry may be chosen again
MkstempAnyName(d) == TempNames

\* the names mkstemp may return: those with no entry (O_EXCL)
MkstempNames(d) == {n \in TempNames : d[n] = NoneS}

\* one chunk c reaching a file at 1-based position pos through a handle of
\* mode m: appended in append mode or at the end, written over otherwise
WriteChunk(content, m, pos, c) ==
    IF Contains(m, "a") \/ pos > Len(content) THEN Append(content, c)
    ELSE [content EXCEPT ![pos] = c]

\* the content of a file once the chunks from..to of session s, still in
\* its handle's buffer, have reached it
RECURSIVE FlushChunks(_, _, _, _, _)
FlushChunks(content, m, from, to, s) ==
    IF from > to THEN content
    ELSE FlushChunks(WriteChunk(content, m, from, s), m, from + 1, to, s)

\* CloseFlush dropping the buffer instead of flushing it
CloseFlushNothing(content, m, from, to, s) == content

\* f.close(): the file content after the buffered chunks are flushed
CloseFlush(content, m, from, to, s) == FlushChunks(content, m, from, to, s)

\* ReplaceDir as a link: the target gets the temp file's inode and the temp
\* name keeps its entry
ReplaceDirKeepsTemp(d, tmp) == [d EXCEPT ![Target] = d[tmp]]

\* os.replace(tmp, filename) on the directory
ReplaceDir(d, tmp) == [d EXCEPT ![Target] = d[tmp], ![tmp] = NoneS]

\* os.remove(tmp) on the directory
RemoveDir(d, tmp) == [d EXCEPT ![tmp] = NoneS]

\* a session before atomic_open is called
IdleSession ==
    [pc |-> "idle", mode |-> <<>>, tmp |-> NoneS, ino |-> NoneS, hopen |-> FALSE,
     nwritten |-> 0, nflushed |-> 0, exc |-> NoneS, out |-> NoneS]

\* the touched flags after a step of session s
Touch(s) ==
    [touched EXCEPT ![s] = @ \/ (ReadName(dir', data', Target) # TargetContent)]

InitFiles ==
    /\ prior \in {Absent} \cup StringsUpTo({"p"}, MaxPrior)
    /\ dir = [n \in Names |-> IF n = Target /\ prior # Absent THEN Inode0 ELSE NoneS]
    /\ data = [i \in Inodes |-> IF i = Inode0 /\ prior # Absent THEN prior ELSE <<>>]
    /\ sess = [s \in Sessions |-> IdleSession]
    /\ lastRename = NoneS
    /\ touched = [s \in Sessions |-> FALSE]

\* atomic_open(filename, mode) up to the yield: mkstemp, chmod and fdopen, or
\* a plain open of the target, which raises when the target is absent
Enter(s, m) ==
    /\ sess[s].pc = "idle"
    /\ IF UsesTemp(m)
       THEN \E n \in MkstempNames(dir) :
              /\ dir' = [dir EXCEPT ![n] = s]
              /\ data' = [data EXCEPT ![s] = <<>>]
              /\ sess' = [sess EXCEPT ![s] =
                            [@ EXCEPT !.pc = "body", !.mode = m, !.tmp = n,
                                      !.ino = s, !.hopen = TRUE]]
       ELSE /\ UNCHANGED <<dir, data>>
            /\ IF dir[Target] = NoneS
               THEN sess' = [sess EXCEPT ![s] =
                               [@ EXCEPT !.pc = "raised", !.mode = m,
                                         !.out = "FileNotFoundError"]]
               ELSE sess' = [sess EXCEPT ![s] =
                               [@ EXCEPT !.pc = "body", !.mode = m,
                                         !.ino = dir[Target], !.hopen = TRUE]]
    /\ touched' = Touch(s)
    /\ UNCHANGED <<prior, lastRename, pathVars, pruneVars>>

\* the block writes one more chunk to the handle; it stays in the buffer
Write(s) ==
    /\ sess[s].pc = "body"
    /\ Writable(sess[s].mode)
    /\ sess[s].nwritten < MaxWrites
    /\ sess' = [sess EXCEPT ![s].nwritten = @ + 1]
    /\ UNCHANGED <<dir, data, prior, lastRename, touched, pathVars, pruneVars>>

\* the handle's buffer passes its oldest chunk on to the file
Flush(s) ==
    /\ sess[s].pc = "body"
    /\ sess[s].nflushed < sess[s].nwritten
    /\ data' = [data EXCEPT ![sess[s].ino] =
                  WriteChunk(@, sess[s].mode, sess[s].nflushed + 1, s)]
    /\ sess' = [sess EXCEPT ![s].nflushed = @ + 1]
    /\ UNCHANGED dir
    /\ touched' = Touch(s)
    /\ UNCHANGED <<prior, lastRename, pathVars, pruneVars>>

\* the block ends without an exception: the else clause is entered
BlockReturn(s) ==
    /\ sess[s].pc = "body"
    /\ sess' = [sess EXCEPT ![s].pc = "else_close"]
    /\ UNCHANGED <<dir, data, prior, lastRename, touched, pathVars, pruneVars>>

\* the block raises e: "except Exception" catches it or it leaves the
\* generator as it is, the handle open and the temp file in place
BlockRaise(s, e) ==
    /\ sess[s].pc = "body"
    /\ IF CaughtByExceptException(e)
       THEN sess' = [sess EXCEPT ![s] = [@ EXCEPT !.pc = "exc_close", !.exc = e]]
       ELSE sess' = [sess EXCEPT ![s] = [@ EXCEPT !.pc = "raised", !.exc = e, !.out = e]]
    /\ UNCHANGED <<dir, data, prior, lastRename, touched, pathVars, pruneVars>>

\* f.close() of either clause, leading to the place next
Close(s, next) ==
    /\ data' = [data EXCEPT ![sess[s].ino] =
                  CloseFlush(@, sess[s].mode, sess[s].nflushed + 1, sess[s].nwritten, s)]
    /\ sess' = [sess EXCEPT ![s] =
                  [@ EXCEPT !.pc = next, !.hopen = FALSE, !.nflushed = sess[s].nwritten]]
    /\ UNCHANGED dir
    /\ touched' = Touch(s)
    /\ UNCHANGED <<prior, lastRename, pathVars, pruneVars>>

\* else: f.close()
ElseClose(s) ==
    /\ sess[s].pc = "else_close"
    /\ Close(s, "else_replace")

\* else: os.replace(tmp_filename, filename) when there is a temp file; it
\* raises when the temp name has no entry
ElseReplace(s) ==
    /\ sess[s].pc = "else_replace"
    /\ IF sess[s].tmp = NoneS
       THEN /\ sess' = [sess EXCEPT ![s].pc = "returned"]
            /\ UNCHANGED <<dir, lastRename>>
       ELSE IF dir[sess[s].tmp] = NoneS
       THEN /\ sess' = [sess EXCEPT ![s] =
                          [@ EXCEPT !.pc = "raised", !.out = "FileNotFoundError"]]
            /\ UNCHANGED <<dir, lastRename>>
       ELSE /\ dir' = ReplaceDir(dir, sess[s].tmp)
            /\ lastRename' = s
            /\ sess' = [sess EXCEPT ![s].pc = "returned"]
    /\ UNCHANGED data
    /\ touched' = Touch(s)
    /\ UNCHANGED <<prior, pathVars, pruneVars>>

\* except Exception: f.close()
ExceptClose(s) ==
    /\ sess[s].pc = "exc_close"
    /\ Close(s, "exc_remove")

\* except Exception: os.remove(tmp_filename) when there is a temp file, its
\* OSError passed over, then the exception raised again
ExceptRemoveRaise(s) ==
    /\ sess[s].pc = "exc_remove"
    /\ IF sess[s].tmp # NoneS /\ dir[sess[s].tmp] # NoneS
       THEN dir' = RemoveDir(dir, sess[s].tmp)
       ELSE UNCHANGED dir
    /\ sess' = [sess EXCEPT ![s] = [@ EXCEPT !.pc = "raised", !.out = sess[s].exc]]
    /\ UNCHANGED data
    /\ touched' = Touch(s)
    /\ UNCHANGED <<prior, lastRename, pathVars, pruneVars>>

\* a step of session s other than its entry
SessionStep(s) ==
    \/ Write(s)
    \/ Flush(s)
    \/ BlockReturn(s)
    \/ \E e \in Exceptions : BlockRaise(s, e)
    \/ ElseClose(s)
    \/ ElseReplace(s)
    \/ ExceptClose(s)
    \/ ExceptRemoveRaise(s)

\* prune_file_and_folder, not called in these specifications
PruneIdle ==
    /\ tree = {}
    /\ before = {}
    /\ cwd = <<"/">>
    /\ name = <<>>
    /\ base = <<>>
    /\ ret = "none"

\* the arguments of the path algebra, not called in these specifications
PathIdle ==
    /\ pa = <<>>
    /\ pb = <<>>
    /\ pthird = <<>>
    /\ pop = "none"
    /\ pres = None

Init == InitFiles /\ PathIdle /\ PruneIdle

Next == \E s \in Sessions : (\E m \in Modes : Enter(s, m)) \/ SessionStep(s)

\* two sessions on the same target, each in any mode
Spec == Init /\ [][Next]_vars

NextWrite == \E s \in Sessions : (\E m \in WriteOnlyModes : Enter(s, m)) \/ SessionStep(s)

\* two sessions on the same target, both opened for writing
SpecWrite == Init /\ [][NextWrite]_vars

(***************************************************************************)
(* Calls of the path algebra on drawn arguments.                           *)
(***************************************************************************)
\* the arguments a of the calls
PathsA == StringsUpTo(Alphabet, MaxLenA)

\* the arguments b of the calls
PathsB == StringsUpTo(Alphabet, MaxLenB)

\* the file system and the sessions, not used in this specification
FilesIdle ==
    /\ prior = Absent
    /\ dir = [n \in Names |-> NoneS]
    /\ data = [i \in Inodes |-> <<>>]
    /\ sess = [s \in Sessions |-> IdleSession]
    /\ lastRename = NoneS
    /\ touched = [s \in Sessions |-> FALSE]

InitPath ==
    /\ pa \in PathsA
    /\ pb \in PathsB
    /\ pthird = <<>>
    /\ pop = "none"
    /\ pres = None
    /\ FilesIdle
    /\ PruneIdle

\* rv = join_path(pa, pb)
JoinPath ==
    /\ pop = "none"
    /\ pop' = "join_path"
    /\ pres' = join_path(pa, pb)
    /\ UNCHANGED <<pa, pb, pthird, fileVars, pruneVars>>

\* rv = is_path_child_of(pa, pb, strict)
IsPathChildOf ==
    /\ pop = "none"
    /\ \E strict \in BOOLEAN :
         /\ pop' = "is_path_child_of"
         /\ pres' = [strict |-> strict, rv |-> is_path_child_of(pa, pb, strict)]
    /\ UNCHANGED <<pa, pb, pthird, fileVars, pruneVars>>

NextPath == JoinPath \/ IsPathChildOf

\* the path algebra applied once to every pair of drawn arguments
SpecPath == InitPath /\ [][NextPath]_vars

(***************************************************************************)
(* Strict is_path_child_of asked of three drawn paths, pairwise.           *)
(***************************************************************************)
\* the characters the three paths are made of: two segment names, the
\* separator and the virtual-path marker
OrderAlphabet == {"a", "1", "/", "@"}

InitOrder ==
    /\ pa \in StringsUpTo(OrderAlphabet, MaxOrdA)
    /\ pb \in StringsUpTo(OrderAlphabet, MaxOrdB)
    /\ pthird \in StringsUpTo(OrderAlphabet, MaxOrdC)
    /\ pop = "none"
    /\ pres = None
    /\ FilesIdle
    /\ PruneIdle

\* is_path_child_of(x, y) with strict left at its default, for the pairs
\* (a, b), (b, a), (b, c) and (a, c)
ChildOrder ==
    /\ pop = "none"
    /\ pop' = "child_order"
    /\ pres' = [ab |-> is_path_child_of(pa, pb, TRUE),
                ba |-> is_path_child_of(pb, pa, TRUE),
                bc |-> is_path_child_of(pb, pthird, TRUE),
                ac |-> is_path_child_of(pa, pthird, TRUE)]
    /\ UNCHANGED <<pa, pb, pthird, fileVars, pruneVars>>

NextOrder == ChildOrder

\* strict is_path_child_of applied pairwise to every drawn triple of paths
SpecOrder == InitOrder /\ [][NextOrder]_vars

(***************************************************************************)
(* prune_file_and_folder and is_unsafe_to_delete on a small tree of files  *)
(* and directories.  A node of the tree is the sequence of the names that  *)
(* lead to it from the root, the root being the empty sequence; there are  *)
(* no symbolic links.  Paths are strings, as everywhere in this module.    *)
(***************************************************************************)
\* the name every file of the tree has; every other name is a directory's
FileName == <<"f">>

\* the nodes a tree is drawn from: base-to-be /b with a file and a
\* directory that holds a file, and beside it /d with a file, and /f
Universe ==
    { << <<"b">> >>, << <<"b">>, <<"f">> >>, << <<"b">>, <<"d">> >>,
      << <<"b">>, <<"d">>, <<"f">> >>,
      << <<"d">> >>, << <<"d">>, <<"f">> >>, << <<"f">> >> }

\* the node one level up, the root being its own parent
Parent(n) == IF n = <<>> THEN <<>> ELSE SubSeq(n, 1, Len(n) - 1)

\* every node of t hangs off a directory of t
WellFormed(t) ==
    \A n \in t : Parent(n) = <<>> \/ (Parent(n) \in t /\ n[Len(n) - 1] # FileName)

Trees == {t \in SUBSET Universe : WellFormed(t)}

\* n is a directory of t
IsDir(t, n) == n = <<>> \/ (n \in t /\ n[Len(n)] # FileName)

\* n has something in it
HasChildren(t, n) == \E m \in t : Parent(m) = n /\ m # n

\* x is not the empty string
NotEmpty(x) == x # <<>>

\* [x for x in path.split(sep) if x]
Components(path) == SelectSeq(StrSplit(path, "/"), NotEmpty)

\* a path that names no node: a component on the way is missing or a file
Unresolved == << <<"unresolved">> >>

\* the kernel's walk along the components of a path, starting at node cur
RECURSIVE Walk(_, _, _)
Walk(t, cur, comps) ==
    IF Len(comps) = 0 THEN cur
    ELSE IF ~IsDir(t, cur) THEN Unresolved
    ELSE LET comp == Head(comps)
         IN  IF comp = <<>> \/ comp = <<".">> THEN Walk(t, cur, Tail(comps))
             ELSE IF comp = <<".", ".">> THEN Walk(t, Parent(cur), Tail(comps))
             ELSE Walk(t, Append(cur, comp), Tail(comps))

\* the node the kernel resolves a path to, with working directory wd
Resolve(t, wd, path) ==
    IF path = <<>> THEN Unresolved
    ELSE Walk(t, IF StartsWith(path, <<"/">>) THEN <<>> ELSE Components(wd),
              StrSplit(path, "/"))

\* os.getcwd() raises OSError once the working directory has been removed
GetcwdFails(t, wd) == ~IsDir(t, Components(wd))

\* the last component of a path, trailing slashes apart
LastComponent(path) ==
    LET comps == Components(path)
    IN  IF Len(comps) = 0 THEN <<>> ELSE comps[Len(comps)]

\* os.remove(path): the tree afterwards, ok false for an OSError
OsRemove(t, wd, path) ==
    LET n == Resolve(t, wd, path)
    IN  IF n \in t /\ ~IsDir(t, n) THEN [ok |-> TRUE, tree |-> t \ {n}]
        ELSE [ok |-> FALSE, tree |-> t]

\* os.rmdir(path): the tree afterwards, ok false for an OSError; the kernel
\* refuses a path that ends in . or .., the root and a directory in use
OsRmdir(t, wd, path) ==
    LET n == Resolve(t, wd, path)
    IN  IF /\ n \in t
           /\ IsDir(t, n)
           /\ ~HasChildren(t, n)
           /\ LastComponent(path) \notin {<<".">>, <<".", ".">>}
        THEN [ok |-> TRUE, tree |-> t \ {n}]
        ELSE [ok |-> FALSE, tree |-> t]

\* os.path.abspath(path) with working directory wd
AbsPath(wd, path) ==
    NormPath(IF StartsWith(path, <<"/">>) THEN path ELSE PosixJoin(wd, path))

\* the length of the longest common prefix of two lists
RECURSIVE CommonLen(_, _)
CommonLen(x, y) ==
    IF Len(x) = 0 \/ Len(y) = 0 \/ Head(x) # Head(y) THEN 0
    ELSE 1 + CommonLen(Tail(x), Tail(y))

\* os.path.relpath(path, start) for two absolute paths
RelPath(path, start) ==
    LET start_list == Components(start)
        path_list == Components(path)
        i == CommonLen(start_list, path_list)
        rel_list == [k \in 1..(Len(start_list) - i) |-> <<".", ".">>]
                    \o SubSeq(path_list, i + 1, Len(path_list))
    IN  IF Len(rel_list) = 0 THEN <<".">> ELSE StrJoin(rel_list, "/")

\* first in (os.path.curdir, os.path.pardir), forgetting os.path.curdir
FirstIsPardirOnly(first) == first = <<".", ".">>

\* first in (os.path.curdir, os.path.pardir)
FirstIsCurdirOrPardir(first) == first \in {<<".">>, <<".", ".">>}

\* is_unsafe_to_delete(path, base) with working directory wd
is_unsafe_to_delete(wd, path, bs) ==
    LET a == AbsPath(wd, path)
        b == AbsPath(wd, bs)
        diff == RelPath(a, b)
        first == StrSplit(diff, "/")[1]
    IN  FirstIsCurdirOrPardir(first)

\* is_unsafe_to_delete raises OSError: abspath asks for a working directory
\* that is gone
UnsafeRaises(t, wd, path, bs) ==
    /\ GetcwdFails(t, wd)
    /\ ~StartsWith(path, <<"/">>) \/ ~StartsWith(bs, <<"/">>)

\* the index of the last c in s, 0 when there is none
RECURSIVE LastIndex(_, _)
LastIndex(s, c) ==
    IF Len(s) = 0 THEN 0
    ELSE IF s[Len(s)] = c THEN Len(s)
    ELSE LastIndex(SubSeq(s, 1, Len(s) - 1), c)

\* os.path.split(p): <<head, tail>>
PathSplit(p) ==
    LET i == LastIndex(p, "/")
        head == SubSeq(p, 1, i)
        tail == Drop(p, i + 1)
    IN  <<IF RStrip(head, "/") = <<>> THEN head ELSE RStrip(head, "/"), tail>>

\* the while loop of prune_file_and_folder: the tree it leaves and what
\* the function returns
RECURSIVE PruneAncestors(_, _, _, _, _)
PruneAncestors(t, wd, head, tail, bs) ==
    IF head = <<>> \/ tail = <<>> THEN [tree |-> t, returns |-> TRUE]
    ELSE IF UnsafeRaises(t, wd, head, bs) THEN [tree |-> t, returns |-> TRUE]
    ELSE IF is_unsafe_to_delete(wd, head, bs) THEN [tree |-> t, returns |-> FALSE]
    ELSE LET removed == OsRmdir(t, wd, head)
             up == PathSplit(head)
         IN  IF ~removed.ok THEN [tree |-> t, returns |-> TRUE]
             ELSE PruneAncestors(removed.tree, wd, up[1], up[2], bs)

\* prune_file_and_folder(name, base) on tree t with working directory wd
prune_file_and_folder(t, wd, nm, bs) ==
    IF is_unsafe_to_delete(wd, nm, bs) THEN [tree |-> t, returns |-> FALSE]
    ELSE LET asFile == OsRemove(t, wd, nm)
             asDir == OsRmdir(t, wd, nm)
             first == PathSplit(nm)
             second == IF first[2] = <<>> THEN PathSplit(first[1]) ELSE first
         IN  IF asFile.ok
             THEN PruneAncestors(asFile.tree, wd, second[1], second[2], bs)
             ELSE IF asDir.ok
             THEN PruneAncestors(asDir.tree, wd, second[1], second[2], bs)
             ELSE [tree |-> t, returns |-> FALSE]

\* the components a drawn name is made of
NameComponents == {<<"b">>, <<"d">>, <<"f">>, <<".", ".">>}

\* the names drawn: relative paths of at most MaxComps components, with and
\* without a trailing slash
PruneNames ==
    LET plain == {StrJoin(cs, "/") : cs \in StringsUpTo(NameComponents, MaxComps)}
    IN  plain \cup {n \o <<"/">> : n \in plain \ {<<>>}}

\* the bases drawn
Bases == {<<"b">>, <<"/", "b">>, <<"b", "/", "d">>, <<"/">>, <<".">>}

\* the working directories drawn
WorkingDirs == {<<"/">>, <<"/", "b">>}

InitPrune ==
    /\ tree \in Trees
    /\ before = tree
    /\ cwd \in WorkingDirs
    /\ IsDir(tree, Components(cwd))
    /\ name \in PruneNames
    /\ base \in Bases
    /\ ret = "none"
    /\ FilesIdle
    /\ PathIdle

\* one call of prune_file_and_folder(name, base)
Prune ==
    /\ ret = "none"
    /\ LET out == prune_file_and_folder(tree, cwd, name, base)
       IN  /\ tree' = out.tree
           /\ ret' = IF out.returns THEN "True" ELSE "False"
    /\ UNCHANGED <<before, cwd, name, base, fileVars, pathVars>>

NextPrune == Prune

\* prune_file_and_folder called once on every drawn tree, working directory,
\* name and base
SpecPrune == InitPrune /\ [][NextPrune]_vars

(***************************************************************************)
(* Claims about atomic_open.                                               *)
(***************************************************************************)
\* the complete content a session's block has written to its handle
Complete(s) == [i \in 1..sess[s].nwritten |-> s]

\* the session's block ended without an exception and atomic_open returned
Returned(s) == sess[s].pc = "returned"

\* the session's block raised and the exception has left atomic_open
BlockFailed(s) == sess[s].pc = "raised" /\ sess[s].exc # NoneS

\* the temp file the session created still has a name in the directory
TempLinked(s) == \E n \in TempNames : dir[n] = s

\* C1: once a session opened for writing has ended without error, its temp
\* file has no name left in the directory; as long as no other session has
\* replaced the target since, reading the target gives exactly the content
\* the block wrote; and when no other session ever started, the directory
\* holds no temp file at all.  This whatever the target held before.
C1_SuccessfulWrite ==
    \A s \in Sessions :
        Returned(s) =>
            /\ ~TempLinked(s)
            /\ lastRename = s => TargetContent = Complete(s)
            /\ (\A t \in Sessions \ {s} : sess[t].pc = "idle") =>
                   \A n \in TempNames : dir[n] = NoneS

\* C1's case: a session that ran alone over a target holding prior content
\* wrote two chunks, and the target now reads as these two chunks
C1_Witness ==
    \E s \in Sessions :
        /\ Returned(s)
        /\ \A t \in Sessions \ {s} : sess[t].pc = "idle"
        /\ prior = <<"p">>
        /\ sess[s].nwritten = 2
        /\ TargetContent = <<s, s>>

\* C2 as stated: a session in any mode but the read-only one whose block
\* raised has, in none of its steps, changed what the target name shows.
C2_AsStated ==
    \A s \in Sessions :
        (BlockFailed(s) /\ sess[s].mode # <<"r">>) => ~touched[s]

\* C3 as stated: once any exception raised by the block has left
\* atomic_open, the handle is closed, the session's temp file has no name
\* left in the directory, and the exception that left is the one raised.
C3_AsStated ==
    \A s \in Sessions :
        BlockFailed(s) =>
            /\ ~sess[s].hopen
            /\ ~TempLinked(s)
            /\ sess[s].out = sess[s].exc

\* C4: with sessions opened for writing, the target always reads as what it
\* held before any session or as the complete content of a session that
\* ended without error, whatever place the sessions are at.
C4_NoPartialContentVisible ==
    TargetContent \in {prior} \cup {Complete(s) : s \in {t \in Sessions : Returned(t)}}

\* C4's case: one session has ended and the target reads as its content,
\* while the other has part of its content in its temp file and part still
\* in its buffer
C4_Witness ==
    \E s, t \in Sessions :
        /\ Returned(s)
        /\ sess[s].nwritten = 2
        /\ TargetContent = Complete(s)
        /\ sess[t].pc = "body"
        /\ sess[t].nflushed = 1
        /\ sess[t].nwritten = 2
        /\ data[t] = <<t>>

\* the session holds a temp file it has neither renamed nor removed yet
HoldsTemp(s) ==
    sess[s].pc \in {"body", "else_close", "else_replace", "exc_close", "exc_remove"}

\* C5: two sessions opened for writing on the same target never hold the
\* same temp file, and once both have ended without error the target reads
\* as the complete content of the one whose os.replace ran last.
C5_LastRenameWins ==
    /\ \A s, t \in Sessions :
           (s # t /\ HoldsTemp(s) /\ HoldsTemp(t)) =>
               (sess[s].tmp # sess[t].tmp /\ sess[s].ino # sess[t].ino)
    /\ (\A s \in Sessions : Returned(s)) =>
           (lastRename \in Sessions /\ TargetContent = Complete(lastRename))

\* C5's case: both sessions ended without error after writing different
\* amounts, s1 renamed last and the target reads as s1's content
C5_Witness ==
    /\ \A s \in Sessions : Returned(s)
    /\ lastRename = "s1"
    /\ sess["s1"].nwritten = 1
    /\ sess["s2"].nwritten = 2
    /\ TargetContent = <<"s1">>

(***************************************************************************)
(* Claims about the path algebra, checked under SpecPath.                  *)
(***************************************************************************)
\* the real part of a path
RealOf(path) == split_virtual_path(path)[1]

\* the virtual part of a path, None when the path holds no "@"
VirtualOf(path) == split_virtual_path(path)[2]

\* a call of join_path has returned
Joined == pop = "join_path"

\* a call of is_path_child_of has returned
ChildAsked == pop = "is_path_child_of"

\* what the spec's step 3 gives for a and b
Step3Result(a, b) == norm_join(RealOf(a), RealOf(b)) \o <<"@">> \o VirtualOf(b)

\* C6 as stated: whenever b contains "@", join_path(a, b) is
\* normalize(join(a.real, b.real)) + "@" + b.virtual, and splitting the result
\* gives back b's virtual part.
C6_AsStated ==
    (Joined /\ Contains(pb, "@")) =>
        /\ pres = Step3Result(pa, pb)
        /\ VirtualOf(pres) = VirtualOf(pb)

\* the b of C6 the code treats as carrying a virtual part that survives the
\* "@." rule: the virtual part is not empty and "@" + virtual does not end in "@."
KeepsVirtual(b) ==
    /\ Contains(b, "@")
    /\ VirtualOf(b) # <<>>
    /\ ~EndsWith(<<"@">> \o VirtualOf(b), <<"@", ".">>)

\* C6, amended: whenever b contains "@", b's virtual part is not empty and
\* "@" + b.virtual does not end in "@.", join_path(a, b) is
\* normalize(join(a.real, b.real)) + "@" + b.virtual, and splitting the result
\* gives back b's virtual part.
C6_JoinKeepsVirtualOfB ==
    (Joined /\ KeepsVirtual(pb)) =>
        /\ pres = Step3Result(pa, pb)
        /\ VirtualOf(pres) = VirtualOf(pb)

\* C6's case: both a and b carry a non-empty virtual part, and the result
\* carries b's, not a's
C6_Witness ==
    /\ Joined
    /\ KeepsVirtual(pb)
    /\ Truthy(VirtualOf(pa))
    /\ VirtualOf(pa) # VirtualOf(pb)
    /\ VirtualOf(pres) = VirtualOf(pb)

\* C7: for a = r + "@" + n with n purely numeric, join_path(a, b) equals
\* join_path(r, b) when b's real part is neither empty nor ".", and
\* join_path(a, ".") is a itself.
C7_NumericVirtualRule ==
    (Joined /\ VirtualOf(pa) # None /\ IsDigit(VirtualOf(pa))) =>
        /\ RealOf(pb) \notin {<<>>, <<".">>} => pres = join_path(RealOf(pa), pb)
        /\ pb = <<".">> => pres = pa

\* C7's case: a numeric virtual part is discarded by a join with a real
\* sibling, the result carrying no "@"
C7_Witness ==
    /\ Joined
    /\ VirtualOf(pa) # None /\ IsDigit(VirtualOf(pa))
    /\ RealOf(pb) \notin {<<>>, <<".">>}
    /\ ~Contains(pb, "@")
    /\ ~Contains(pres, "@")
    /\ RealOf(pa) # <<>>

\* the spec's step 4 with the "@." exception of step 7
Step4Result(a, b) ==
    LET rv == RealOf(a) \o <<"@">> \o NormPath(PosixJoin(VirtualOf(a), RealOf(b)))
        n == Len(rv)
    IN  IF n >= 2 /\ rv[n - 1] = "@" /\ rv[n] = "." THEN SubSeq(rv, 1, n - 2) ELSE rv

\* C8 as stated: whenever a has a virtual part that is not purely numeric and
\* b has none, join_path(a, b) is a.real + "@" + normalize(join(a.virtual,
\* b.real)), less a final "@.".
C8_AsStated ==
    (Joined /\ Contains(pa, "@") /\ ~IsDigit(VirtualOf(pa)) /\ ~Contains(pb, "@")) =>
        pres = Step4Result(pa, pb)

\* C8, amended: whenever a has a non-empty virtual part that is not purely
\* numeric and b has none, join_path(a, b) is a.real + "@" +
\* normalize(join(a.virtual, b.real)), less a final "@.".
C8_JoinStaysVirtual ==
    (/\ Joined
     /\ Contains(pa, "@")
     /\ VirtualOf(pa) # <<>>
     /\ ~IsDigit(VirtualOf(pa))
     /\ ~Contains(pb, "@")) =>
        pres = Step4Result(pa, pb)

\* C8's case: a join inside a non-numeric virtual path whose real part is not
\* normalised and whose result keeps the "@"
C8_Witness ==
    /\ Joined
    /\ Contains(pa, "@")
    /\ VirtualOf(pa) # <<>>
    /\ ~IsDigit(VirtualOf(pa))
    /\ ~Contains(pb, "@")
    /\ RealOf(pb) \notin {<<>>, <<".">>}
    /\ RealOf(pa) # NormPath(RealOf(pa))
    /\ Contains(pres, "@")

\* the real and virtual segment lists of a path
Segments(path) == <<parse_path(RealOf(path)), parse_path(OrEmpty(VirtualOf(path)))>>

\* C9: when a and b have the same real and virtual segment lists, strict
\* is_path_child_of is false and non-strict is true; when they differ, the
\* strict and the non-strict results are equal.
C9_IdentityOnlyNonStrict ==
    ChildAsked =>
        IF Segments(pa) = Segments(pb)
        THEN pres.rv = ~pres.strict
        ELSE pres.rv = is_path_child_of(pa, pb, ~pres.strict)

\* C9's case: two different strings with the same segment lists, asked
\* non-strictly, are child of each other
C9_Witness ==
    /\ ChildAsked
    /\ pa # pb
    /\ Segments(pa) = Segments(pb)
    /\ Segments(pa)[1] # <<>>
    /\ ~pres.strict
    /\ pres.rv

\* p is a prefix of s and s is longer
IsStrictPrefix(p, s) == Len(p) < Len(s) /\ \A i \in 1..Len(p) : p[i] = s[i]

\* the spec's three rules for strict is_child_of, in order, over the real
\* and virtual segment lists of a and of b
SpecChildRules(ar, av, br, bv) ==
    IF Len(av) = 0 /\ Len(bv) > 0 THEN FALSE
    ELSE IF ar = br /\ IsStrictPrefix(bv, av) THEN TRUE
    ELSE IsStrictPrefix(br, ar)

\* the spec's rules applied to the segment lists of two paths
SpecChildOf(a, b) ==
    SpecChildRules(parse_path(RealOf(a)), parse_path(OrEmpty(VirtualOf(a))),
                   parse_path(RealOf(b)), parse_path(OrEmpty(VirtualOf(b))))

\* "a@1/2" and "a@1" and "a", the paths of the spec's examples
PathA12 == <<"a", "@", "1", "/", "2">>
PathA1 == <<"a", "@", "1">>
PathA == <<"a">>

\* C10: strict is_path_child_of(a, b) is false when a has no virtual segments
\* and b has some; otherwise true when the real segments are equal and a's
\* virtual segments strictly extend b's; otherwise true exactly when b's real
\* segments are a strict prefix of a's.  "a@1/2" is a child of "a@1" and "a"
\* is not a child of "a@1" (two fixed calls, evaluated in one state only).
C10_StrictChildRules ==
    /\ (ChildAsked /\ pres.strict) => pres.rv = SpecChildOf(pa, pb)
    /\ (ChildAsked /\ pa = PathA /\ pb = PathA) =>
           (is_path_child_of(PathA12, PathA1, TRUE)
            /\ ~is_path_child_of(PathA, PathA1, TRUE))

\* C10's case: the real segments are equal, and a's virtual
\* segments strictly extend b's non-empty virtual segments
C10_Witness ==
    /\ ChildAsked
    /\ pres.strict
    /\ pres.rv
    /\ Segments(pa)[1] = Segments(pb)[1]
    /\ Len(Segments(pb)[2]) > 0
    /\ Len(Segments(pa)[2]) > Len(Segments(pb)[2])

\* the pairwise calls on the three paths have returned
OrderAsked == pop = "child_order"

\* C11: strict is_path_child_of is a strict partial order: a child of b and
\* b child of a are never both true, and a child of b with b child of c
\* implies a child of c, also for paths that carry virtual parts.
C11_StrictPartialOrder ==
    OrderAsked =>
        /\ ~(pres.ab /\ pres.ba)
        /\ (pres.ab /\ pres.bc) => pres.ac

\* C11's case: a chain of three paths in which a and b carry a virtual part
\* and a is a child of b by its real segments, b a child of c by its virtual
\* segments
C11_Witness ==
    /\ OrderAsked
    /\ pres.ab /\ pres.bc /\ pres.ac
    /\ Contains(pa, "@") /\ Contains(pb, "@")
    /\ Segments(pa)[1] # Segments(pb)[1]
    /\ Segments(pb)[1] = Segments(pthird)[1]
    /\ Segments(pb)[2] # <<>>

(***************************************************************************)
(* Claims about prune_file_and_folder.                                     *)
(***************************************************************************)
\* the call of prune_file_and_folder has returned
PruneReturned == ret # "none"

\* what the call removed
Removed == before \ tree

\* the nodes the two arguments name, seen from the working directory
NameNode == Components(AbsPath(cwd, name))
BaseNode == Components(AbsPath(cwd, base))

\* n lies in base and is not base
StrictlyInsideBase(n) == IsStrictPrefix(BaseNode, n)

\* C12: prune_file_and_folder(name, base) removes nothing but name and
\* ancestor directories of name that it has emptied, all of them strictly
\* inside base: never base itself, never anything outside base, and nothing
\* at all when name is base or lies outside base; and it creates nothing
C12_PruneStaysInsideBase ==
    PruneReturned =>
        /\ tree \subseteq before
        /\ \A n \in Removed :
              /\ StrictlyInsideBase(n)
              /\ n = NameNode \/ IsStrictPrefix(n, NameNode)
              /\ ~HasChildren(tree, n)
        /\ ~StrictlyInsideBase(NameNode) => Removed = {}

\* name and a directory above it were removed, while base, which is not the
\* root, is still there and so is a directory that lies outside base
C12_Witness ==
    /\ PruneReturned
    /\ NameNode \in Removed
    /\ \E n \in Removed : IsStrictPrefix(n, NameNode)
    /\ BaseNode \in tree
    /\ \E n \in tree : n # BaseNode /\ ~StrictlyInsideBase(n) /\ IsDir(tree, n)

\* C13: prune_file_and_folder(name, base) returns True if and only if it
\* removed name, however many emptied ancestor directories it removed
\* afterwards on the way up to base
C13_AsStated ==
    PruneReturned => (ret = "True" <=> NameNode \in Removed)

====
